---- MODULE Spec2Model ----
(***************************************************************************)
(* Model of the spirograph sketch src/src/main.rs (nannou + egui).         *)
(*                                                                         *)
(* Numbers.  The program computes in f32.  The model computes the same     *)
(* expressions exactly: a scalar is a rational multiple of a power of pi,  *)
(*     [n |-> n, d |-> d, k |-> k]   standing for   (n/d) * pi^k ,         *)
(* so that degrees, radians, arc lengths and circumferences keep their     *)
(* units and the conversions between them (deg_to_rad, to_degrees) are     *)
(* real multiplications by pi/180 and 180/pi.  Rounding error of f32 is    *)
(* not modelled; no division by zero occurs in the program (circumference  *)
(* never returns 0), so no inf/NaN arises.                                 *)
(*                                                                         *)
(* Vectors.  A Vec2 is a finite sum of scaled unit vectors                 *)
(*     c * (cos a, sin a)                                                  *)
(* kept as a set of terms [c |-> scalar, a |-> angle], the angle reduced   *)
(* into [0, pi) (cos and sin have period 2 pi, and a half turn negates     *)
(* both), terms of equal angle merged and zero terms dropped.  Two unit    *)
(* vectors at different angles of [0, pi) are linearly independent, so     *)
(* for the sums of at most two terms the program builds, equal vectors     *)
(* have equal representations and conversely.                              *)
(***************************************************************************)
EXTENDS Integers, Sequences, FiniteSets

VARIABLES config, model, pc, frame, events, history, twin

vars == <<config, model, pc, frame, events, history, twin>>

---------------------------------------------------------------------------
(* Exact scalars (n/d) * pi^k                                              *)

Abs(x) == IF x < 0 THEN -x ELSE x

RECURSIVE Gcd(_, _)
Gcd(a, b) == IF b = 0 THEN a ELSE Gcd(b, a % b)

\* the scalar (n/d) * pi^k in lowest terms, d > 0; zero carries no unit
Sc(n, d, k) ==
    IF n = 0 THEN [n |-> 0, d |-> 1, k |-> 0]
    ELSE LET g == Gcd(Abs(n), Abs(d))
             s == IF d < 0 THEN -1 ELSE 1
         IN  [n |-> (s * n) \div g, d |-> (s * d) \div g, k |-> k]

Q(n, d) == Sc(n, d, 0)

PI == Sc(1, 1, 1)

\* f32 multiplication; common factors are cancelled before multiplying
SMul(x, y) ==
    IF x.n = 0 \/ y.n = 0 THEN Sc(0, 1, 0)
    ELSE LET g == Gcd(Abs(x.n), y.d)
             h == Gcd(Abs(y.n), x.d)
         IN  Sc((x.n \div g) * (y.n \div h), (x.d \div h) * (y.d \div g), x.k + y.k)

\* f32 division; the program never divides by zero
SDiv(x, y) == SMul(x, Sc(y.d, y.n, -y.k))

SNeg(x) == Sc(-x.n, x.d, x.k)

\* f32 addition; both operands carry the same power of pi unless one is 0
SAdd(x, y) ==
    CASE x.n = 0 -> y
      [] y.n = 0 -> x
      [] x.k = y.k ->
            LET g == Gcd(x.d, y.d)
            IN  Sc(x.n * (y.d \div g) + y.n * (x.d \div g), (x.d \div g) * y.d, x.k)

SSub(x, y) == SAdd(x, SNeg(y))

SAbs(x) == Sc(Abs(x.n), x.d, x.k)

is_zero(x) == x.n = 0

SLeq(x, y) == SSub(y, x).n >= 0

\* f32::to_degrees: x * 180 / pi
to_degrees(x) == SDiv(SMul(x, Q(180, 1)), PI)

\* nannou deg_to_rad: x * pi / 180
deg_to_rad(x) == SDiv(SMul(x, PI), Q(180, 1))

---------------------------------------------------------------------------
(* Exact vectors                                                           *)

\* pt2(0.0, 0.0)
VZero == {}

Angles(v) == {t.a : t \in v}

Coef(v, a) == IF a \in Angles(v) THEN (CHOOSE t \in v : t.a = a).c ELSE Q(0, 1)

\* drop the zero terms
VTrim(v) == {t \in v : ~is_zero(t.c)}

VScale(v, s) == VTrim({[c |-> SMul(t.c, s), a |-> t.a] : t \in v})

VAdd(v, w) ==
    VTrim({[c |-> SAdd(Coef(v, a), Coef(w, a)), a |-> a] : a \in Angles(v) \cup Angles(w)})

VSub(v, w) == VAdd(v, VScale(w, Q(-1, 1)))

\* the angle x (radians, a rational multiple of pi) reduced into [0, 2 pi)
Mod2Pi(x) == IF x.k = 1 THEN Sc(x.n % (2 * x.d), x.d, 1) ELSE x

\* (cos x, sin x) for x in radians
cos_sin(x) ==
    LET y == Mod2Pi(x)
    IN  IF y.k = 1 /\ y.n >= y.d
        THEN {[c |-> Q(-1, 1), a |-> SSub(y, PI)]}
        ELSE {[c |-> Q(1, 1), a |-> y]}

\* Euclidean length of a vector of at most one term; a vector of two
\* independent terms has no length of the form (n/d) * pi^k
NoLength == [n |-> 0, d |-> 0, k |-> 0]

VLength(v) ==
    IF v = {} THEN Q(0, 1)
    ELSE IF Cardinality(v) = 1 THEN SAbs((CHOOSE t \in v : TRUE).c)
    ELSE NoLength

\* glam Vec2::lerp: self + (rhs - self) * s
lerp(a, b, s) == VAdd(a, VScale(VSub(b, a), s))

---------------------------------------------------------------------------
(* Program constants and the inputs the model ranges over                  *)

DEG_PERIOD == 360

RADIUS_RATIO == Q(2, 3)

PEN_OFFSET == Q(3, 2)

OUTER_RADIUS == Q(200, 1)

\* init: delta_theta: 0.5
DELTA_THETA == Q(1, 2)

\* init: clobber: 0.003
CLOBBER == Q(3, 1000)

\* ranges of the two sliders
FadeRange == [lo |-> Q(0, 1), hi |-> Q(1, 100)]

PenRange == [lo |-> Q(-2, 1), hi |-> Q(2, 1)]

\* most frames one run of the model advances
MaxFrames == 3

\* most window events one run of the model delivers
MaxEvents == 2

\* most frames one run of the two-copy specification advances
TwinMaxFrames == 1

\* most window events one run of the two-copy specification delivers
TwinMaxEvents == 2

\* the arguments init hands to init_spiro and the step it stores: the
\* program's own constants, and other values of the same parameters
RatioValues == {Q(0, 1), RADIUS_RATIO, Q(1, 1)}

RadiusValues == {Q(0, 1), Q(2, 1), OUTER_RADIUS}

StepValues == {DELTA_THETA, Q(120, 1), Q(180, 1)}

Configs ==
    [radius_ratio : RatioValues, pen_offset : {PEN_OFFSET},
     outer_radius : RadiusValues, delta_theta : StepValues]

\* the window events egui can receive: a drag of one of the two sliders of
\* the Controls window to a value of its range, or an event that lands on
\* no widget (cursor moved, window resized, a click outside the sliders)
WindowEvents ==
    [widget : {"fade"}, value : {FadeRange.lo, FadeRange.hi}]
      \cup [widget : {"pen offset"}, value : {Q(0, 1), Q(1, 1)}]
      \cup [widget : {"none"}, value : {Q(0, 1)}]

\* the window events the two-copy specification delivers
TwinEvents ==
    {event \in WindowEvents :
        \/ event.widget = "none"
        \/ event.widget = "fade" /\ event.value = FadeRange.hi
        \/ event.widget = "pen offset" /\ event.value = Q(0, 1)}

---------------------------------------------------------------------------
(* Circle                                                                  *)

\* Circle::new
Circle_new(radius) ==
    [radius |-> radius, centre |-> VZero, color_func |-> "white"]

\* Circle::new_at
Circle_new_at(centre, radius) ==
    [radius |-> radius, centre |-> centre, color_func |-> "white"]

\* pt_at as it would be if the circle's centre were left out
pt_at_no_centre(self, degs) ==
    LET angle == deg_to_rad(degs)
    IN  VScale(cos_sin(angle), self.radius)

\* Circle::pt_at
pt_at(self, degs) ==
    LET angle == deg_to_rad(degs)
    IN  VAdd(VScale(cos_sin(angle), self.radius), self.centre)

\* Circle::circumference: a zero radius counts as radius 1
circumference(self) ==
    SMul(SMul(Q(2, 1), PI),
         IF ~is_zero(self.radius) THEN self.radius ELSE Q(1, 1))

---------------------------------------------------------------------------
(* Wheel                                                                   *)

\* Wheel::new
Wheel_new(initial_roll_phase, radius, location, pen_offset) ==
    [roll_phase |-> initial_roll_phase,
     geometry   |-> Circle_new_at(location, radius),
     pen_offset |-> pen_offset]

\* roll as it would be if the wheel turned in the sense of theta
roll_added(self, distance, end) ==
    LET moved == [self EXCEPT !.geometry.centre = end]
        angle_traversed ==
            SDiv(SMul(SMul(Q(2, 1), PI), distance), circumference(moved.geometry))
    IN  [moved EXCEPT !.roll_phase = SAdd(self.roll_phase, angle_traversed)]

\* roll as it would be if the wheel turned without being moved to end
roll_in_place(self, distance, end) ==
    LET angle_traversed ==
            SDiv(SMul(SMul(Q(2, 1), PI), distance), circumference(self.geometry))
    IN  [self EXCEPT !.roll_phase = SSub(self.roll_phase, angle_traversed)]

\* Wheel::roll
roll(self, distance, end) ==
    LET moved == [self EXCEPT !.geometry.centre = end]
        angle_traversed ==
            SDiv(SMul(SMul(Q(2, 1), PI), distance), circumference(moved.geometry))
    IN  [moved EXCEPT !.roll_phase = SSub(self.roll_phase, angle_traversed)]

\* pen_location as it would be with the two ends of the lerp exchanged
pen_location_swapped(self) ==
    lerp(pt_at(self.geometry, to_degrees(self.roll_phase)),
         self.geometry.centre,
         self.pen_offset)

\* Wheel::pen_location
pen_location(self) ==
    lerp(self.geometry.centre,
         pt_at(self.geometry, to_degrees(self.roll_phase)),
         self.pen_offset)

---------------------------------------------------------------------------
(* Model                                                                   *)

\* init_spiro as it would be if the wheel were created at the origin
init_spiro_at_origin(radius_ratio, pen_offset, outer_radius, initial_roll, initial_theta) ==
    LET outer == Circle_new(outer_radius)
        inner == Circle_new(SMul(SSub(Q(1, 1), radius_ratio), outer_radius))
        wheel == Wheel_new(initial_roll,
                           SSub(outer.radius, inner.radius),
                           VZero,
                           pen_offset)
    IN  [inner |-> inner, outer |-> outer, wheel |-> wheel]

init_spiro(radius_ratio, pen_offset, outer_radius, initial_roll, initial_theta) ==
    LET outer == Circle_new(outer_radius)
        inner == Circle_new(SMul(SSub(Q(1, 1), radius_ratio), outer_radius))
        wheel == Wheel_new(initial_roll,
                           SSub(outer.radius, inner.radius),
                           pt_at(inner, initial_theta),
                           pen_offset)
    IN  [inner |-> inner, outer |-> outer, wheel |-> wheel]

\* Egui::from_window: no input pending
Egui_new == [fade |-> {}, pen |-> {}]

\* init, for the constants c
init(c) ==
    LET initial_roll  == Q(0, 1)
        initial_theta == Q(0, 1)
        spiro == init_spiro(c.radius_ratio, c.pen_offset, c.outer_radius,
                            initial_roll, initial_theta)
    IN  [wheel       |-> spiro.wheel,
         points      |-> << >>,
         inner       |-> spiro.inner,
         outer       |-> spiro.outer,
         delta_theta |-> c.delta_theta,
         theta       |-> Q(0, 1),
         clobber     |-> CLOBBER,
         first_frame |-> TRUE,
         egui        |-> Egui_new]

\* raw_window_event: egui keeps the event for its next frame; a later drag
\* of the same slider replaces an earlier one
raw_window_event(m, event) ==
    CASE event.widget = "fade"       -> [m EXCEPT !.egui.fade = {event.value}]
      [] event.widget = "pen offset" -> [m EXCEPT !.egui.pen = {event.value}]
      [] OTHER                       -> m

\* egui::Slider::new(value, range) shown in a frame: the value follows the
\* drag pending for it, kept inside the range, and is left alone otherwise
Slider(value, range, pending) ==
    IF pending = {} THEN value
    ELSE LET v == CHOOSE x \in pending : TRUE
         IN  IF SLeq(v, range.lo) THEN range.lo
             ELSE IF SLeq(range.hi, v) THEN range.hi
             ELSE v

\* advance as it would be if the arc length were taken on the inner circle
advance_inner_arc(m) ==
    LET theta    == SAdd(m.theta, m.delta_theta)
        distance == SDiv(SMul(m.delta_theta, circumference(m.inner)), Q(DEG_PERIOD, 1))
        position == pt_at(m.inner, theta)
        wheel    == roll(m.wheel, distance, position)
    IN  [m EXCEPT !.theta = theta,
                  !.wheel = wheel,
                  !.points = Append(m.points, pen_location(wheel)),
                  !.first_frame = FALSE]

\* advance as it would be if the wheel were moved along the outer circle
advance_outer_position(m) ==
    LET theta    == SAdd(m.theta, m.delta_theta)
        distance == SDiv(SMul(m.delta_theta, circumference(m.outer)), Q(DEG_PERIOD, 1))
        position == pt_at(m.outer, theta)
        wheel    == roll(m.wheel, distance, position)
    IN  [m EXCEPT !.theta = theta,
                  !.wheel = wheel,
                  !.points = Append(m.points, pen_location(wheel)),
                  !.first_frame = FALSE]

\* advance as it would be if the trail were replaced by the new point
advance_restart(m) ==
    LET theta    == SAdd(m.theta, m.delta_theta)
        distance == SDiv(SMul(m.delta_theta, circumference(m.outer)), Q(DEG_PERIOD, 1))
        position == pt_at(m.inner, theta)
        wheel    == roll(m.wheel, distance, position)
    IN  [m EXCEPT !.theta = theta,
                  !.wheel = wheel,
                  !.points = <<pen_location(wheel)>>,
                  !.first_frame = FALSE]

\* update, its first half: advance theta, roll the wheel, record the pen
advance(m) ==
    LET theta    == SAdd(m.theta, m.delta_theta)
        distance == SDiv(SMul(m.delta_theta, circumference(m.outer)), Q(DEG_PERIOD, 1))
        position == pt_at(m.inner, theta)
        wheel    == roll(m.wheel, distance, position)
    IN  [m EXCEPT !.theta = theta,
                  !.wheel = wheel,
                  !.points = Append(m.points, pen_location(wheel)),
                  !.first_frame = FALSE]

\* controls as it would be without the pen offset slider
controls_no_pen(m) ==
    [m EXCEPT !.clobber = Slider(m.clobber, FadeRange, m.egui.fade),
              !.egui = Egui_new]

\* update, its second half: the egui frame with the Controls window
controls(m) ==
    [m EXCEPT !.clobber = Slider(m.clobber, FadeRange, m.egui.fade),
              !.wheel.pen_offset = Slider(m.wheel.pen_offset, PenRange, m.egui.pen),
              !.egui = Egui_new]

update(m) == controls(advance(m))

\* view: what is drawn onto the frame
view(m) ==
    [background |-> IF m.first_frame THEN "black" ELSE "fade",
     alpha      |-> IF m.first_frame THEN Q(1, 1) ELSE m.clobber,
     dot        |-> pen_location(m.wheel),
     guide      |-> [centre |-> m.wheel.geometry.centre,
                     radius |-> m.wheel.geometry.radius,
                     start  |-> pen_location(m.wheel),
                     end    |-> m.wheel.geometry.centre]]

---------------------------------------------------------------------------
(* The running program: nannou::app(init).update(update).run() with a      *)
(* window whose view is view and whose raw events go to raw_window_event.  *)
(* Each turn of the host's loop delivers the window events that arrived,   *)
(* calls update, then redraws the window by calling view.                  *)

\* the frame before view has drawn anything
NoFrame ==
    [nth   |-> 0,
     image |-> [background |-> "none", alpha |-> Q(0, 1), dot |-> VZero,
                guide |-> [centre |-> VZero, radius |-> Q(0, 1),
                           start |-> VZero, end |-> VZero]]]

\* theta and the roll phase, as update leaves them
Phase(m) == [theta |-> m.theta, roll_phase |-> m.wheel.roll_phase]

Init ==
    /\ config \in Configs
    /\ model = init(config)
    /\ pc = "update"
    /\ frame = NoFrame
    /\ events = 0
    /\ history = <<Phase(model)>>
    /\ twin = model

RawWindowEvent ==
    /\ events < MaxEvents
    /\ \E event \in WindowEvents : model' = raw_window_event(model, event)
    /\ events' = events + 1
    /\ UNCHANGED <<config, pc, frame, history, twin>>

Update ==
    /\ pc = "update"
    /\ Len(history) <= MaxFrames
    /\ model' = update(model)
    /\ history' = Append(history, Phase(model'))
    /\ pc' = "view"
    /\ UNCHANGED <<config, frame, events, twin>>

View ==
    /\ pc = "view"
    /\ frame' = [nth |-> frame.nth + 1, image |-> view(model)]
    /\ pc' = "update"
    /\ UNCHANGED <<config, model, events, history, twin>>

Next == RawWindowEvent \/ Update \/ View

Spec == Init /\ [][Next]_vars

---------------------------------------------------------------------------
(* Two copies of the model, each with its own constants and its own        *)
(* window events, updated in step.                                         *)

InitTwin ==
    /\ config \in Configs
    /\ model = init(config)
    /\ \E c \in Configs :
          /\ c.delta_theta = config.delta_theta
          /\ twin = init(c)
    /\ pc = "update"
    /\ frame = NoFrame
    /\ events = 0
    /\ history = <<Phase(model)>>

TwinEventModel ==
    /\ events < TwinMaxEvents
    /\ \E event \in TwinEvents : model' = raw_window_event(model, event)
    /\ events' = events + 1
    /\ UNCHANGED <<config, pc, frame, history, twin>>

TwinEventTwin ==
    /\ events < TwinMaxEvents
    /\ \E event \in TwinEvents : twin' = raw_window_event(twin, event)
    /\ events' = events + 1
    /\ UNCHANGED <<config, pc, frame, history, model>>

TwinUpdate ==
    /\ Len(model.points) < TwinMaxFrames
    /\ model' = update(model)
    /\ twin' = update(twin)
    /\ UNCHANGED <<config, pc, frame, events, history>>

NextTwin == TwinEventModel \/ TwinEventTwin \/ TwinUpdate

SpecTwin == InitTwin /\ [][NextTwin]_vars

---------------------------------------------------------------------------
(* Properties                                                              *)

Last(seq) == seq[Len(seq)]

\* a step that runs update on model
UpdateStep == Len(model'.points) > Len(model.points)

IsPositive(x) == x.n > 0

\* model was built from the program's own constants
ProgramConfig ==
    /\ config.radius_ratio = RADIUS_RATIO
    /\ config.outer_radius = OUTER_RADIUS
    /\ config.pen_offset = PEN_OFFSET

\* the closed-form hypotrochoid state at angle theta (degrees) for outer
\* radius R and wheel radius r
Hypotrochoid(R, r, theta) ==
    LET t      == deg_to_rad(theta)
        centre == VScale(cos_sin(t), SSub(R, r))
        angle  == SNeg(SDiv(SMul(t, R), r))
    IN  [centre |-> centre,
         angle  |-> angle,
         spoke  |-> VAdd(centre, VScale(cos_sin(angle), r))]

\* C1: with wheel radius r > 0, after n updates the integrated state is the
\* closed-form state at the same elapsed angle: theta = n * delta_theta,
\* wheel centre = (R - r)(cos theta, sin theta), roll_phase = -theta R / r,
\* and pen_location() = lerp(centre, centre + r (cos roll, sin roll), pen_offset)
C1_KinematicEqualsClosedForm ==
    LET n == Len(model.points)
        R == config.outer_radius
        r == SMul(config.radius_ratio, R)
        h == Hypotrochoid(R, r, SMul(Q(n, 1), config.delta_theta))
    IN  IsPositive(r) =>
          /\ model.theta = SMul(Q(n, 1), config.delta_theta)
          /\ model.wheel.geometry.centre = h.centre
          /\ model.wheel.roll_phase = h.angle
          /\ pen_location(model.wheel) = lerp(h.centre, h.spoke, model.wheel.pen_offset)

C1_Witness ==
    /\ ProgramConfig
    /\ Len(model.points) >= 3
    /\ model.wheel.pen_offset # config.pen_offset

\* a whole number of turns, in radians
WholeTurns(x) == is_zero(x) \/ (x.k = 1 /\ x.d = 1 /\ x.n % 2 = 0)

\* revolutions of theta between entries i and j of the history
Revolutions(i, j) == SDiv(SSub(history[j].theta, history[i].theta), Q(DEG_PERIOD, 1))

RollChange(i, j) == SSub(history[j].roll_phase, history[i].roll_phase)

PeriodicWith(period) ==
    \A i, j \in DOMAIN history :
        (i < j /\ Revolutions(i, j) = period) => WholeTurns(RollChange(i, j))

\* C2 as claimed: whenever theta has advanced by (outer circumference /
\* wheel circumference) revolutions, roll_phase has changed by whole turns
C2_Original ==
    PeriodicWith(SDiv(circumference(model.outer), circumference(model.wheel.geometry)))

\* C2 amended: whenever theta has advanced by (wheel circumference / outer
\* circumference) revolutions, roll_phase has changed by whole turns
C2_RollPhasePeriodic ==
    PeriodicWith(SDiv(circumference(model.wheel.geometry), circumference(model.outer)))

C2_Witness ==
    /\ ProgramConfig
    /\ \E i, j \in DOMAIN history :
          /\ i < j
          /\ Revolutions(i, j) =
                SDiv(circumference(model.wheel.geometry), circumference(model.outer))
          /\ ~is_zero(RollChange(i, j))

\* C3 as claimed: with wheel radius 0, every pen position update records is
\* at distance R * |pen_offset| from the origin
C3_Original ==
    [][(UpdateStep /\ is_zero(model.wheel.geometry.radius)) =>
          VLength(Last(model'.points)) =
              SMul(model.outer.radius, SAbs(model.wheel.pen_offset))]_vars

\* C3 amended: with wheel radius 0, every pen position update records is at
\* distance R from the origin whatever pen_offset is; it is with inner
\* radius 0 (wheel radius R) that the distance is R * |pen_offset|
C3_DegenerateWheel ==
    [][UpdateStep =>
          /\ is_zero(model.wheel.geometry.radius) =>
                VLength(Last(model'.points)) = model.outer.radius
          /\ is_zero(model.inner.radius) =>
                VLength(Last(model'.points)) =
                    SMul(model.outer.radius, SAbs(model.wheel.pen_offset))]_vars

C3_Witness ==
    /\ is_zero(model.wheel.geometry.radius)
    /\ config.outer_radius = OUTER_RADIUS
    /\ Len(model.points) >= 2
    /\ model.wheel.pen_offset # config.pen_offset
    /\ \A i \in DOMAIN model.points : VLength(model.points[i]) = OUTER_RADIUS

\* C4: with pen_offset = 0 pen_location() is the wheel centre, at distance
\* R - r from the origin, and so is every point update appends to the trail
C4_PenAtCentre ==
    /\ [](is_zero(model.wheel.pen_offset) =>
            /\ pen_location(model.wheel) = model.wheel.geometry.centre
            /\ VLength(pen_location(model.wheel)) =
                  SSub(model.outer.radius, model.wheel.geometry.radius))
    /\ [][(UpdateStep /\ is_zero(model.wheel.pen_offset)) =>
            /\ Last(model'.points) = model'.wheel.geometry.centre
            /\ VLength(Last(model'.points)) =
                  SSub(model.outer.radius, model.wheel.geometry.radius)]_vars

C4_Witness ==
    /\ ProgramConfig
    /\ is_zero(model.wheel.pen_offset)
    /\ Len(model.points) >= 2
    /\ Last(model.points) = model.wheel.geometry.centre
    /\ model.points[1] # model.wheel.geometry.centre

\* C5: with pen_offset = 1 pen_location() is the point of the wheel's rim at
\* the roll phase, centre + r (cos roll_phase, sin roll_phase), at distance
\* r from the wheel centre
C5_PenOnRim ==
    model.wheel.pen_offset = Q(1, 1) =>
      /\ pen_location(model.wheel) =
            VAdd(model.wheel.geometry.centre,
                 VScale(cos_sin(model.wheel.roll_phase), model.wheel.geometry.radius))
      /\ VLength(VSub(pen_location(model.wheel), model.wheel.geometry.centre)) =
            model.wheel.geometry.radius

C5_Witness ==
    /\ ProgramConfig
    /\ model.wheel.pen_offset = Q(1, 1)
    /\ Len(model.points) >= 2
    /\ ~is_zero(model.wheel.roll_phase)

\* C6: the trail is append-only: an update appends exactly one element, the
\* pen location of the wheel just rolled, and leaves the earlier elements
\* as they were; no other step changes the trail; after n updates its
\* length is n
C6_TrailAppendOnly ==
    /\ [](Len(model.points) = Len(history) - 1)
    /\ [][IF pc = "update" /\ pc' = "view"
           THEN model'.points =
                  Append(model.points,
                         pen_location([model'.wheel EXCEPT
                                          !.pen_offset = model.wheel.pen_offset]))
           ELSE model'.points = model.points]_vars

C6_Witness ==
    /\ Len(model.points) >= 3
    /\ model.wheel.pen_offset # config.pen_offset
    /\ model.points[1] # model.points[2]
    /\ model.points[2] # model.points[3]

\* the fields C7 lists
Listed(m) ==
    [theta       |-> m.theta,
     delta_theta |-> m.delta_theta,
     centre      |-> m.wheel.geometry.centre,
     radius      |-> m.wheel.geometry.radius,
     roll_phase  |-> m.wheel.roll_phase,
     pen_offset  |-> m.wheel.pen_offset,
     clobber     |-> m.clobber,
     first_frame |-> m.first_frame,
     points      |-> m.points]

Parameters(m) ==
    [fade         |-> m.clobber,
     pen_offset   |-> m.wheel.pen_offset,
     wheel_radius |-> m.wheel.geometry.radius]

\* what the next update leaves in the parameters, for each window event
\* that may be delivered before it
Outcomes ==
    {Parameters(update(raw_window_event(model, event))) : event \in WindowEvents}

\* the parameters that some window event changes (an event on no widget
\* changes none)
Adjustable ==
    LET outcomes == Outcomes
    IN  {p \in {"fade", "pen_offset", "wheel_radius"} :
            \E a, b \in outcomes : a[p] # b[p]}

\* once view has drawn, the frame shows the model's current values
FrameUsesModel ==
    (pc = "update" /\ frame.nth > 0) =>
      /\ frame.image.dot = pen_location(model.wheel)
      /\ frame.image.background = "fade" => frame.image.alpha = model.clobber

C9_FirstFrameBackground ==
    /\ (Len(history) = 1) = model.first_frame
    /\ frame.nth = 1 => frame.image.background = "black"
    /\ frame.nth > 1 =>
          /\ frame.image.background = "fade"
          /\ pc = "update" => frame.image.alpha = model.clobber

\* C10: the radii are those init_spiro set and are non-negative, wheel
\* radius + inner radius = outer radius, and the wheel centre is the point
\* of the inner circle at angle theta
C10_RollingContact ==
    LET spiro == init_spiro(config.radius_ratio, config.pen_offset,
                            config.outer_radius, Q(0, 1), Q(0, 1))
    IN  /\ model.outer = spiro.outer
        /\ model.inner = spiro.inner
        /\ model.wheel.geometry.radius = spiro.wheel.geometry.radius
        /\ SLeq(Q(0, 1), model.outer.radius)
        /\ SLeq(Q(0, 1), model.inner.radius)
        /\ SLeq(Q(0, 1), model.wheel.geometry.radius)
        /\ SAdd(model.wheel.geometry.radius, model.inner.radius) = model.outer.radius
        /\ model.wheel.geometry.centre = pt_at(model.inner, model.theta)
        /\ VLength(model.wheel.geometry.centre) = model.inner.radius

C10_Witness ==
    /\ ProgramConfig
    /\ Len(model.points) >= 3
    /\ model.wheel.pen_offset # config.pen_offset
    /\ model.wheel.geometry.centre # init(config).wheel.geometry.centre

====
